---- MODULE Spec2Model ----
(***************************************************************************)
(* A model of src/src/hidden_prototype/main.py: the MCP tool               *)
(* forge_and_run(code, purpose), the workspace tree it builds under        *)
(* PROTO_ROOT, the child process it launches with `uv run`, and the text   *)
(* it returns.                                                             *)
(*                                                                         *)
(* Text is modelled as a sequence of tokens: a token is one character, or  *)
(* a fixed piece of text whose inner structure no operation of the program *)
(* looks at (a literal of the report, the date part of the timestamp).     *)
(* The concatenation of Python strings is the concatenation of sequences.  *)
(* The emoji that open the literals of the source are written by their     *)
(* code points, as in "(U+274C) Error: ...".                               *)
(***************************************************************************)
EXTENDS Integers, Sequences, FiniteSets, TLC

\* ------------------------------------------------------------------ bounds
\* Number of invocations of forge_and_run that may be in flight together.
NumCalls == 2
\* The wall clock ticks second by second up to MaxTime; beyond it, time only
\* advances to the next expiry of a running child's timer.
MaxTime == 1
\* Longest run of padding characters in the purposes of SanSpec.
MaxPad == 31

\* ------------------------------------------------------- program constants
\* timeout=180 of subprocess.run
TIMEOUT == 180
\* the slice [:30] of safe_purpose
PURPOSE_LIMIT == 30

Calls == 1..NumCalls

\* ------------------------------------------------------------------- text
\* str.isalnum() on the characters the model uses.
IsAlnum(c) == c \in {"a", "b", "x", "7"}

\* The characters purposes are made of: alphanumeric ones, the space, the
\* underscore, and two characters the filter drops.
PurposeChars == {"a", "7", " ", "_", "/", "-"}

\* The condition of the generator expression: c.isalnum() or c in (" ", "_")
Keeps(c) == IsAlnum(c) \/ c \in {" ", "_"}

\* "".join(c for c in purpose if ...): the kept characters, in order.
RECURSIVE JoinKept(_)
JoinKept(s) ==
    IF s = <<>> THEN <<>>
    ELSE (IF Keeps(Head(s)) THEN <<Head(s)>> ELSE <<>>) \o JoinKept(Tail(s))

\* str.replace(old, new) for one-character old and new.
Replace(s, old, new) == [k \in 1..Len(s) |-> IF s[k] = old THEN new ELSE s[k]]

\* s[:n]
Slice(s, n) == SubSeq(s, 1, IF Len(s) < n THEN Len(s) ELSE n)

\* A variant of Sanitize: the cut to 30 characters comes before the filter.
Sanitize_CutFirst(purpose) ==
    Replace(JoinKept(Slice(purpose, PURPOSE_LIMIT)), " ", "_")

\* safe_purpose of forge_and_run.
Sanitize(purpose) == Slice(Replace(JoinKept(purpose), " ", "_"), PURPOSE_LIMIT)

Digits == <<"0", "1", "2", "3", "4", "5", "6", "7", "8", "9">>

\* %H, %M, %S: a number below 100 as two decimal digits.
TwoDigits(n) == <<Digits[(n \div 10) + 1], Digits[(n % 10) + 1]>>

\* datetime.now().strftime("%Y%m%d_%H%M%S") for the clock reading t, in
\* seconds since the midnight of the day the model runs in; the date part
\* is one token.
Strftime(t) ==
    <<"20260101", "_">> \o TwoDigits((t \div 3600) % 24)
        \o TwoDigits((t \div 60) % 60) \o TwoDigits(t % 60)

\* A variant of WorkspaceName: the purpose is left out of the name.
WorkspaceName_TimestampOnly(timestamp, safe) == timestamp

\* f"{timestamp}_{safe_purpose}": the name of the workspace under PROTO_ROOT.
WorkspaceName(timestamp, safe) == timestamp \o <<"_">> \o safe

\* str(PROTO_ROOT / name)
PathText(name) == <<"~/.hidden_prototype/">> \o name

\* --------------------------------------------------- the executed programs
\* The code arguments of the model. A code stands for the source text of a
\* script; what `uv run` does with that text is given by the four operators
\* below: the files it writes into $PROTOTYPE_OUTPUT_DIR, the bytes it
\* writes to standard output and standard error, and its exit code.
Codes == {"ok.py", "warn.py", "fail.py", "bin.py"}

\* A byte that is not valid in the locale's encoding.
BadByte == "\\xff"

ProgFiles(c) ==
    CASE c = "ok.py" -> <<"a.csv">>
      [] c = "warn.py" -> <<>>
      [] c = "fail.py" -> <<"b.png">>
      [] OTHER -> <<>>

ProgStdout(c) ==
    CASE c = "ok.py" -> <<"o", "\r", "\n">>
      [] c = "warn.py" -> <<>>
      [] c = "fail.py" -> <<>>
      [] OTHER -> <<BadByte>>

ProgStderr(c) ==
    CASE c = "ok.py" -> <<>>
      [] c = "warn.py" -> <<"w", "\n">>
      [] c = "fail.py" -> <<>>
      [] OTHER -> <<>>

ProgExit(c) ==
    CASE c = "ok.py" -> 0
      [] c = "warn.py" -> 0
      [] c = "fail.py" -> 2
      [] OTHER -> 0

\* The purposes of the invocations of Spec.
Purposes == {<<"a", " ", "b">>, <<"a", "_", "b">>, <<"a", "/", "7">>}

\* ------------------------------------------------------------------ state
VARIABLES
    now,           \* the wall clock, in seconds
    uv_on_path,    \* whether shutil.which("uv") finds the runner
    workspaces,    \* names of the workspace directories under PROTO_ROOT
    scripts,       \* workspace name -> content of its script.py
    outputs,       \* workspace name -> names of the entries of its outputs/
    pc,            \* per call: the position of forge_and_run
    code,          \* per call: the code argument
    purpose,       \* per call: the purpose argument
    timestamp,     \* per call: the local timestamp
    safe_purpose,  \* per call: the local safe_purpose
    child,         \* per call: the process subprocess.run launched
    launches,      \* per call: how many times the runner was launched
    completed,     \* per call: the CompletedProcess, once run() returned
    result         \* per call: the returned string, <<>> before the return

vars == <<now, uv_on_path, workspaces, scripts, outputs, pc, code, purpose,
          timestamp, safe_purpose, child, launches, completed, result>>

fsVars == <<workspaces, scripts, outputs>>
argVars == <<code, purpose, timestamp, safe_purpose>>

NoChild == [state |-> "none", script |-> "", outdir |-> <<>>, written |-> 0,
            started |-> 0]
NoCompleted == [returncode |-> 0, stdout |-> <<>>, stderr |-> <<>>]

\* proto_dir of call i (the name under PROTO_ROOT).
proto_dir(i) == WorkspaceName(timestamp[i], safe_purpose[i])

Init ==
    /\ now = 0
    /\ uv_on_path \in BOOLEAN
    /\ workspaces = {}
    /\ scripts = <<>>
    /\ outputs = <<>>
    /\ pc = [i \in Calls |-> "idle"]
    /\ code = [i \in Calls |-> ""]
    /\ purpose = [i \in Calls |-> <<>>]
    /\ timestamp = [i \in Calls |-> <<>>]
    /\ safe_purpose = [i \in Calls |-> <<>>]
    /\ child = [i \in Calls |-> NoChild]
    /\ launches = [i \in Calls |-> 0]
    /\ completed = [i \in Calls |-> NoCompleted]
    /\ result = [i \in Calls |-> <<>>]

\* --------------------------------------------------------------- the steps
\* The framework calls forge_and_run(c, p); lines 47-51 compute the names.
Enter(i, c, p) ==
    /\ pc[i] = "idle"
    /\ code' = [code EXCEPT ![i] = c]
    /\ purpose' = [purpose EXCEPT ![i] = p]
    /\ timestamp' = [timestamp EXCEPT ![i] = Strftime(now)]
    /\ safe_purpose' = [safe_purpose EXCEPT ![i] = Sanitize(p)]
    /\ pc' = [pc EXCEPT ![i] = "named"]
    /\ UNCHANGED <<now, uv_on_path, fsVars, child, launches, completed, result>>

Invoke(i) == \E c \in Codes, p \in Purposes : Enter(i, c, p)

\* proto_dir.mkdir(parents=True, exist_ok=True) and the same for output_dir:
\* an existing directory, and what it holds, is left as it is.
MakeDirs(i) ==
    /\ pc[i] = "named"
    /\ workspaces' = workspaces \cup {proto_dir(i)}
    /\ outputs' = IF proto_dir(i) \in DOMAIN outputs THEN outputs
                  ELSE (proto_dir(i) :> {}) @@ outputs
    /\ pc' = [pc EXCEPT ![i] = "made"]
    /\ UNCHANGED <<now, uv_on_path, scripts, argVars, child, launches,
                   completed, result>>

\* The file system refuses a mkdir: the OSError is raised before the try
\* statement, and leaves forge_and_run without a returned string.
MakeDirsDenied(i) ==
    /\ pc[i] = "named"
    /\ pc' = [pc EXCEPT ![i] = "raised"]
    /\ UNCHANGED <<now, uv_on_path, fsVars, argVars, child, launches, completed,
                   result>>

\* open(script_path, "w") and f.write(code): the file is created or
\* truncated, and holds code.
WriteScript(i) ==
    /\ pc[i] = "made"
    /\ scripts' = (proto_dir(i) :> code[i]) @@ scripts
    /\ pc' = [pc EXCEPT ![i] = "written"]
    /\ UNCHANGED <<now, uv_on_path, workspaces, outputs, argVars, child,
                   launches, completed, result>>

\* The file system refuses the open(): no file is created, the OSError is
\* raised before the try statement.
WriteScriptDenied(i) ==
    /\ pc[i] = "made"
    /\ pc' = [pc EXCEPT ![i] = "raised"]
    /\ UNCHANGED <<now, uv_on_path, fsVars, argVars, child, launches, completed,
                   result>>

\* A variant of WhichUv: the early return removes the workspace it made.
WhichUv_Cleanup(i) ==
    /\ pc[i] = "written"
    /\ IF uv_on_path
       THEN /\ pc' = [pc EXCEPT ![i] = "resolved"]
            /\ UNCHANGED <<result, fsVars>>
       ELSE /\ pc' = [pc EXCEPT ![i] = "done"]
            /\ result' = [result EXCEPT ![i] = <<"(U+274C) Error: 'uv' executable not found in PATH.">>]
            /\ workspaces' = workspaces \ {proto_dir(i)}
            /\ scripts' = [d \in DOMAIN scripts \ {proto_dir(i)} |-> scripts[d]]
            /\ outputs' = [d \in DOMAIN outputs \ {proto_dir(i)} |-> outputs[d]]
    /\ UNCHANGED <<now, uv_on_path, argVars, child, launches, completed>>

\* shutil.which("uv") and the early return of lines 60-62.
NotFoundText == <<"(U+274C) Error: 'uv' executable not found in PATH.">>

WhichUv(i) ==
    /\ pc[i] = "written"
    /\ IF uv_on_path
       THEN /\ pc' = [pc EXCEPT ![i] = "resolved"]
            /\ UNCHANGED result
       ELSE /\ pc' = [pc EXCEPT ![i] = "done"]
            /\ result' = [result EXCEPT ![i] = NotFoundText]
    /\ UNCHANGED <<now, uv_on_path, fsVars, argVars, child, launches, completed>>

\* except Exception as e: return f"System Error: {str(e)}"
SystemErrorText(e) == <<"(U+274C) System Error: ", e>>

\* subprocess.run starts the child: [uv_path, "run", script_path] with
\* PROTOTYPE_OUTPUT_DIR = output_dir and cwd = proto_dir. The runner reads the
\* script file as it starts. If the executable which() found is gone by now,
\* Popen raises an OSError and the handler of line 95 returns.
Launch(i) ==
    /\ pc[i] = "resolved"
    /\ IF uv_on_path
       THEN /\ child' = [child EXCEPT ![i] =
                            [state |-> "running", script |-> scripts[proto_dir(i)],
                             outdir |-> proto_dir(i), written |-> 0, started |-> now]]
            /\ launches' = [launches EXCEPT ![i] = @ + 1]
            /\ pc' = [pc EXCEPT ![i] = "waiting"]
            /\ UNCHANGED result
       ELSE /\ pc' = [pc EXCEPT ![i] = "done"]
            /\ result' = [result EXCEPT ![i] = SystemErrorText("FileNotFoundError")]
            /\ UNCHANGED <<child, launches>>
    /\ UNCHANGED <<now, uv_on_path, fsVars, argVars, completed>>

\* The running script writes its next file into $PROTOTYPE_OUTPUT_DIR.
ChildWrite(i) ==
    /\ child[i].state = "running"
    /\ child[i].written < Len(ProgFiles(child[i].script))
    /\ outputs' = [outputs EXCEPT ![child[i].outdir] =
                      @ \cup {ProgFiles(child[i].script)[child[i].written + 1]}]
    /\ child' = [child EXCEPT ![i].written = @ + 1]
    /\ UNCHANGED <<now, uv_on_path, workspaces, scripts, pc, argVars, launches,
                   completed, result>>

\* The script has written its files and its output, and the child exits
\* before its timer expires.
ChildExit(i) ==
    /\ child[i].state = "running"
    /\ child[i].written = Len(ProgFiles(child[i].script))
    /\ now < child[i].started + TIMEOUT
    /\ child' = [child EXCEPT ![i].state = "exited"]
    /\ UNCHANGED <<now, uv_on_path, fsVars, pc, argVars, launches, completed, result>>

\* Whether the bytes are text in the locale's encoding.
Decodable(bytes) == \A k \in 1..Len(bytes) : bytes[k] # BadByte

\* text=True: the universal-newlines translation of the decoded text.
RECURSIVE Newlines(_)
Newlines(s) ==
    IF s = <<>> THEN <<>>
    ELSE IF Head(s) = "\r"
         THEN <<"\n">> \o Newlines(IF Len(s) > 1 /\ s[2] = "\n"
                                   THEN Tail(Tail(s)) ELSE Tail(s))
         ELSE <<Head(s)>> \o Newlines(Tail(s))

\* subprocess.run returns the CompletedProcess of the exited child, or
\* raises the UnicodeDecodeError of a captured stream that is no text, which
\* the handler of line 95 turns into the returned string.
RunReturns(i) ==
    /\ pc[i] = "waiting"
    /\ child[i].state = "exited"
    /\ LET c == child[i].script IN
       IF Decodable(ProgStdout(c)) /\ Decodable(ProgStderr(c))
       THEN /\ completed' = [completed EXCEPT ![i] =
                                [returncode |-> ProgExit(c),
                                 stdout |-> Newlines(ProgStdout(c)),
                                 stderr |-> Newlines(ProgStderr(c))]]
            /\ pc' = [pc EXCEPT ![i] = "reporting"]
            /\ UNCHANGED result
       ELSE /\ pc' = [pc EXCEPT ![i] = "done"]
            /\ result' = [result EXCEPT ![i] = SystemErrorText("UnicodeDecodeError")]
            /\ UNCHANGED completed
    /\ UNCHANGED <<now, uv_on_path, fsVars, argVars, child, launches>>

\* str(returncode)
IntText(n) == ToString(n)

\* The conditional expression of the status line.
StatusText(returncode) ==
    IF returncode = 0 THEN <<"Success">>
    ELSE <<"Failed (Exit Code: ", IntText(returncode), ")">>

\* "\n".join(report)
RECURSIVE JoinLines(_)
JoinLines(parts) ==
    IF parts = <<>> THEN <<>>
    ELSE IF Len(parts) = 1 THEN parts[1]
    ELSE parts[1] \o <<"\n">> \o JoinLines(Tail(parts))

\* repr() of a list of file names.
RECURSIVE ReprItems(_)
ReprItems(names) ==
    IF names = <<>> THEN <<>>
    ELSE <<"'", Head(names), "'">>
            \o (IF Len(names) > 1 THEN <<", ">> ELSE <<>>) \o ReprItems(Tail(names))

ListRepr(names) == <<"[">> \o ReprItems(names) \o <<"]">>

\* A variant of Globs: the workspace is listed, not its outputs directory.
Globs_Workspace(dir) == {<<"outputs", "script.py">>, <<"script.py", "outputs">>}

\* list(output_dir.glob("*")): the entries of the directory, in an order the
\* file system chooses.
Globs(dir) ==
    {s \in [1..Cardinality(outputs[dir]) -> outputs[dir]] :
        \A j, k \in 1..Len(s) : j # k => s[j] # s[k]}

\* A variant of ReportText: the standard-error section is always appended.
ReportText_AlwaysStderr(dir, cp, artifacts) ==
    JoinLines(
        << <<"(U+1F680) Prototype Directory Created: ">> \o PathText(dir),
           <<"(U+1F4CA) Status: ">> \o StatusText(cp.returncode),
           <<"\n[Standard Output]">>,
           IF cp.stdout # <<>> THEN cp.stdout ELSE <<"(No output)">>,
           <<"\n[Standard Error]\n">> \o cp.stderr >>
        \o (IF artifacts # <<>>
            THEN << <<"\n(U+1F4C1) Generated Artifacts in outputs/: ">> \o ListRepr(artifacts) >>
            ELSE <<>>))

\* Lines 77-91: the report, for the listing `artifacts` of output_dir.
ReportText(dir, cp, artifacts) ==
    JoinLines(
        << <<"(U+1F680) Prototype Directory Created: ">> \o PathText(dir),
           <<"(U+1F4CA) Status: ">> \o StatusText(cp.returncode),
           <<"\n[Standard Output]">>,
           IF cp.stdout # <<>> THEN cp.stdout ELSE <<"(No output)">> >>
        \o (IF cp.stderr # <<>>
            THEN << <<"\n[Standard Error]\n">> \o cp.stderr >> ELSE <<>>)
        \o (IF artifacts # <<>>
            THEN << <<"\n(U+1F4C1) Generated Artifacts in outputs/: ">> \o ListRepr(artifacts) >>
            ELSE <<>>))

Report(i) ==
    /\ pc[i] = "reporting"
    /\ \E artifacts \in Globs(proto_dir(i)) :
          result' = [result EXCEPT ![i] =
                        ReportText(proto_dir(i), completed[i], artifacts)]
    /\ pc' = [pc EXCEPT ![i] = "done"]
    /\ UNCHANGED <<now, uv_on_path, fsVars, argVars, child, launches, completed>>

\* The string of the TimeoutExpired handler.
TimeoutText == <<"(U+274C) Error: Execution timed out (180s).">>

\* A variant of TimeoutExpired: the handler reports what the output directory
\* holds so far.
TimeoutExpired_ReportsPartial(i) ==
    /\ pc[i] = "waiting"
    /\ child[i].state = "running"
    /\ now >= child[i].started + TIMEOUT
    /\ child' = [child EXCEPT ![i].state = "killed"]
    /\ pc' = [pc EXCEPT ![i] = "done"]
    /\ \E artifacts \in Globs(proto_dir(i)) :
          result' = [result EXCEPT ![i] =
                        TimeoutText \o <<"\n">>
                            \o ReportText(proto_dir(i), NoCompleted, artifacts)]
    /\ UNCHANGED <<now, uv_on_path, fsVars, argVars, launches, completed>>

\* A variant of TimeoutExpired: the handler launches the runner again.
TimeoutExpired_Retry(i) ==
    /\ pc[i] = "waiting"
    /\ child[i].state = "running"
    /\ now >= child[i].started + TIMEOUT
    /\ child' = [child EXCEPT ![i].started = now, ![i].written = 0]
    /\ launches' = [launches EXCEPT ![i] = @ + 1]
    /\ UNCHANGED <<now, uv_on_path, fsVars, pc, argVars, completed, result>>

\* except subprocess.TimeoutExpired: run() has killed the child and waited
\* for it before the exception reaches the handler of line 93.
TimeoutExpired(i) ==
    /\ pc[i] = "waiting"
    /\ child[i].state = "running"
    /\ now >= child[i].started + TIMEOUT
    /\ child' = [child EXCEPT ![i].state = "killed"]
    /\ pc' = [pc EXCEPT ![i] = "done"]
    /\ result' = [result EXCEPT ![i] = TimeoutText]
    /\ UNCHANGED <<now, uv_on_path, fsVars, argVars, launches, completed>>

\* ------------------------------------------------------- the environment
\* A second of wall-clock time passes.
Tick ==
    /\ now < MaxTime
    /\ now' = now + 1
    /\ UNCHANGED <<uv_on_path, fsVars, pc, argVars, child, launches, completed, result>>

\* The expiry times, still ahead, of the timers of the running children.
Deadlines ==
    {child[i].started + TIMEOUT : i \in {j \in Calls : child[j].state = "running"}}
        \ (0..now)

\* Time passes up to the next expiry of a running child's timer.
Elapse ==
    /\ Deadlines # {}
    /\ now' = CHOOSE d \in Deadlines : \A e \in Deadlines : d <= e
    /\ UNCHANGED <<uv_on_path, fsVars, pc, argVars, child, launches, completed, result>>

\* The runner is removed from the search path.
RemoveUv ==
    /\ uv_on_path
    /\ uv_on_path' = FALSE
    /\ UNCHANGED <<now, fsVars, pc, argVars, child, launches, completed, result>>

Next ==
    \/ \E i \in Calls :
          \/ Invoke(i)
          \/ MakeDirs(i)
          \/ MakeDirsDenied(i)
          \/ WriteScript(i)
          \/ WriteScriptDenied(i)
          \/ WhichUv(i)
          \/ Launch(i)
          \/ ChildWrite(i)
          \/ ChildExit(i)
          \/ RunReturns(i)
          \/ TimeoutExpired(i)
          \/ Report(i)
    \/ Tick
    \/ Elapse
    \/ RemoveUv

Spec == Init /\ [][Next]_vars

\* ------------------------------------------------- reading a returned text
\* The first position of token t in text r, 0 when it has none.
IndexOf(r, t) ==
    IF \E k \in 1..Len(r) : r[k] = t
    THEN CHOOSE k \in 1..Len(r) : r[k] = t /\ \A j \in 1..(k - 1) : r[j] # t
    ELSE 0

Has(r, t) == IndexOf(r, t) > 0

\* A returned text is the structured report when it opens with the workspace
\* line.
IsReport(r) == r # <<>> /\ r[1] = "(U+1F680) Prototype Directory Created: "

\* The text of the line of r that follows token t, up to the end of the line.
LineAfter(r, t) ==
    LET s == IndexOf(r, t)
        ends == {k \in (s + 1)..Len(r) : r[k] = "\n"}
        e == IF ends = {} THEN Len(r) + 1
             ELSE CHOOSE k \in ends : \A j \in ends : k <= j
    IN SubSeq(r, s + 1, e - 1)

ErrHeader == "\n[Standard Error]\n"
ArtHeader == "\n(U+1F4C1) Generated Artifacts in outputs/: "

\* The text of the standard-error section of a report: what follows its
\* header, up to the line break before the artifact section or to the end.
ErrSection(r) ==
    SubSeq(r, IndexOf(r, ErrHeader) + 1,
           IF Has(r, ArtHeader) THEN IndexOf(r, ArtHeader) - 2 ELSE Len(r))

\* The file names of the artifact listing of a report.
Listed(r) ==
    IF Has(r, ArtHeader)
    THEN {r[k] : k \in (IndexOf(r, ArtHeader) + 1)..Len(r)} \ {"[", "]", "'", ", "}
    ELSE {}

Returned(i) == pc[i] = "done"

\* The files the child of call i has written so far.
ChildFiles(i) ==
    {ProgFiles(child[i].script)[k] : k \in 1..child[i].written}

\* =================================================================== claims

\* C1 (as stated): whenever the runner was found and the child exited within
\* the timeout, the call returns the structured report, whose status line is
\* "Success" for exit code 0 and "Failed (Exit Code: N)" for exit code N # 0.
C1_ExitedChildYieldsReport ==
    \A i \in Calls :
        (Returned(i) /\ child[i].state = "exited") =>
            /\ IsReport(result[i])
            /\ LineAfter(result[i], "(U+1F4CA) Status: ") =
                 (IF ProgExit(child[i].script) = 0 THEN <<"Success">>
                  ELSE <<"Failed (Exit Code: ", ToString(ProgExit(child[i].script)), ")">>)

\* C1, for the children whose captured output is text: the report is
\* returned and its status line is as C1 states.
C1_DecodedChildYieldsReport ==
    \A i \in Calls :
        (Returned(i) /\ child[i].state = "exited"
            /\ Decodable(ProgStdout(child[i].script))
            /\ Decodable(ProgStderr(child[i].script))) =>
            /\ IsReport(result[i])
            /\ LineAfter(result[i], "(U+1F4CA) Status: ") =
                 (IF ProgExit(child[i].script) = 0 THEN <<"Success">>
                  ELSE <<"Failed (Exit Code: ", ToString(ProgExit(child[i].script)), ")">>)

\* C2 (as stated): a call that finds no runner returns the fixed not-found
\* text without ever launching a child, and at the moment it returns its
\* workspace, its outputs directory and a script file holding its own code
\* are on disk.
C2_NotFoundLeavesOwnScript ==
    [][\A i \in Calls :
          (pc[i] = "written" /\ ~uv_on_path /\ pc'[i] # pc[i]) =>
              /\ pc'[i] = "done"
              /\ result'[i] = NotFoundText
              /\ child'[i].state = "none" /\ launches'[i] = 0
              /\ proto_dir(i) \in workspaces'
              /\ proto_dir(i) \in DOMAIN outputs'
              /\ proto_dir(i) \in DOMAIN scripts'
              /\ scripts'[proto_dir(i)] = code[i]]_vars

\* C3: a call whose child is still running TIMEOUT seconds after its launch
\* returns exactly the fixed timeout text, with no workspace line, status
\* line, captured output or artifact listing in it, and the files the child
\* wrote stay in the output directory; no other call returns that text.
C3_TimeoutReturnsFixedText ==
    \A i \in Calls :
        /\ (Returned(i) /\ child[i].state = "killed") =>
              /\ result[i] = <<"(U+274C) Error: Execution timed out (180s).">>
              /\ ~IsReport(result[i])
              /\ ~Has(result[i], "(U+1F4CA) Status: ")
              /\ ~Has(result[i], "\n[Standard Output]")
              /\ ~Has(result[i], ArtHeader)
              /\ ChildFiles(i) \subseteq outputs[child[i].outdir]
              /\ now >= child[i].started + TIMEOUT
        /\ (pc[i] = "waiting" /\ child[i].state = "running"
                /\ now >= child[i].started + TIMEOUT) =>
              ~ENABLED (ChildExit(i) \/ RunReturns(i) \/ Report(i))
        /\ (Returned(i) /\ Has(result[i], "(U+274C) Error: Execution timed out (180s)."))
              => child[i].state = "killed"

C3_Witness ==
    \E i \in Calls :
        /\ Returned(i) /\ child[i].state = "killed"
        /\ ChildFiles(i) # {}

\* C4: every file the child of a call wrote into the directory its
\* PROTOTYPE_OUTPUT_DIR names is in the artifact listing of the report the
\* call returns, and that directory is the call's own output directory.
C4_WrittenFilesAreListed ==
    \A i \in Calls :
        /\ child[i].state # "none" => child[i].outdir = proto_dir(i)
        /\ (Returned(i) /\ IsReport(result[i])) => ChildFiles(i) \subseteq Listed(result[i])

C4_Witness ==
    \E i \in Calls :
        /\ Returned(i) /\ IsReport(result[i])
        /\ ChildFiles(i) # {}

\* C5: a structured report has the standard-error section exactly when the
\* captured standard error is not empty, and the section then holds the
\* captured text as it is.
C5_StderrSectionIffCaptured ==
    \A i \in Calls :
        (Returned(i) /\ IsReport(result[i])) =>
            /\ Has(result[i], ErrHeader) <=> (completed[i].stderr # <<>>)
            /\ Has(result[i], ErrHeader) => ErrSection(result[i]) = completed[i].stderr

C5_Witness ==
    \E i, j \in Calls :
        /\ Returned(i) /\ IsReport(result[i]) /\ completed[i].stderr # <<>>
        /\ Listed(result[i]) # {}
        /\ Returned(j) /\ IsReport(result[j]) /\ completed[j].stderr = <<>>

\* The calls that have computed their names.
Named == {i \in Calls : pc[i] \notin {"idle"}}

\* The calls that have written their script file.
Wrote == {i \in Calls : pc[i] \in {"written", "resolved", "waiting", "reporting", "done"}}

\* C6: every call that has returned, whatever it returned, has its
\* workspace, its output directory and its script file on disk, and no step
\* removes a workspace, a script file, an output directory or an entry of
\* one: what is on disk only grows.
C6_WorkspacesOnlyGrow ==
    /\ [](\A i \in Calls :
            Returned(i) =>
                /\ proto_dir(i) \in workspaces
                /\ proto_dir(i) \in DOMAIN scripts
                /\ proto_dir(i) \in DOMAIN outputs)
    /\ [][/\ workspaces \subseteq workspaces'
          /\ DOMAIN scripts \subseteq DOMAIN scripts'
          /\ DOMAIN outputs \subseteq DOMAIN outputs'
          /\ \A d \in DOMAIN outputs : outputs[d] \subseteq outputs'[d]]_vars

C6_Witness ==
    /\ \A i \in Calls : Returned(i)
    /\ \E i, j \in Calls :
          /\ result[i] = NotFoundText
          /\ result[j] = TimeoutText
          /\ proto_dir(i) # proto_dir(j)

\* C7 (as stated): once a call has written its script file, the file holds
\* that call's code from then on, and the code its runner executes is its
\* own code.
C7_ScriptStaysOwnCode ==
    \A i \in Calls :
        /\ i \in Wrote => scripts[proto_dir(i)] = code[i]
        /\ child[i].state # "none" => child[i].script = code[i]

\* C8: two calls share a workspace only when their timestamps and their
\* sanitized purposes are both equal; the runner of a call gets the call's
\* own output directory and executes a script written by a call of the same
\* workspace; a script file holds the code of a call of its workspace; and a
\* report lists only entries of the call's own output directory, each
\* written by a child that was given that directory.
C8_ContentionOnlyOnEqualNames ==
    /\ \A i, j \in Named :
          proto_dir(i) = proto_dir(j) =>
              timestamp[i] = timestamp[j] /\ safe_purpose[i] = safe_purpose[j]
    /\ \A i \in Wrote :
          scripts[proto_dir(i)] \in {code[k] : k \in {j \in Wrote : proto_dir(j) = proto_dir(i)}}
    /\ \A d \in DOMAIN scripts : \E i \in Wrote : proto_dir(i) = d
    /\ \A i \in Calls :
          child[i].state # "none" =>
              /\ child[i].outdir = proto_dir(i)
              /\ child[i].script \in
                    {code[k] : k \in {j \in Wrote : proto_dir(j) = proto_dir(i)}}
    /\ \A d \in DOMAIN outputs :
          outputs[d] = UNION {ChildFiles(k) : k \in {j \in Calls : child[j].state # "none"
                                                          /\ proto_dir(j) = d}}
    /\ \A i \in Calls :
          (Returned(i) /\ IsReport(result[i])) =>
              Listed(result[i]) \subseteq outputs[proto_dir(i)]

C8_Witness ==
    \E i, j \in Calls :
        /\ Returned(i) /\ Returned(j)
        /\ timestamp[i] = timestamp[j] /\ safe_purpose[i] # safe_purpose[j]
        /\ Listed(result[i]) # {} /\ Listed(result[j]) # {}
        /\ Listed(result[i]) # Listed(result[j])

\* ------------------------------------------------ the sanitized purpose
\* The purposes of SanSpec: a head of up to two characters, a run of MaxPad - 4
\* to MaxPad alphanumeric characters or none, and a tail of up to one
\* character.
Heads ==
    {<<>>} \cup {<<c>> : c \in PurposeChars}
           \cup {<<c, d>> : c \in PurposeChars, d \in PurposeChars}

Tails == {<<>>} \cup {<<c>> : c \in PurposeChars}

SanPurposes ==
    {h \o [k \in 1..n |-> "x"] \o t :
        h \in Heads, t \in Tails, n \in {0} \cup ((MaxPad - 4)..MaxPad)}

SanNext == \E p \in SanPurposes : Enter(1, "ok.py", p)

SanSpec == Init /\ [][SanNext]_vars

C9_Allowed(c) == c \in {"a", "b", "x", "7", " ", "_"}

C9_Underscored(s) == [k \in 1..Len(s) |-> IF s[k] = " " THEN "_" ELSE s[k]]

\* C9: the sanitized purpose is the purpose with every character that is not
\* alphanumeric, a space or an underscore removed, then every space turned
\* into an underscore, then cut to its first 30 characters: at most 30
\* characters, all alphanumeric or underscores.
C9_SanitizedPurpose ==
    \A i \in Named :
        LET filtered == C9_Underscored(SelectSeq(purpose[i], C9_Allowed))
            s == safe_purpose[i]
        IN /\ Len(s) = (IF Len(filtered) < 30 THEN Len(filtered) ELSE 30)
           /\ \A k \in 1..Len(s) : s[k] = filtered[k]
           /\ \A k \in 1..Len(s) : s[k] \in {"a", "b", "x", "7", "_"}

C9_Witness ==
    \E i \in Named :
        /\ Len(purpose[i]) > 30
        /\ Len(safe_purpose[i]) = 30
        /\ \E k \in 1..30 : purpose[i][k] \notin {"a", "x", "7", " ", "_"}
        /\ \E k \in 1..30 : purpose[i][k] = " "

\* ----------------------------------------------------------- termination
\* The steps of forge_and_run itself, once the call is entered.
Step(i) ==
    \/ MakeDirs(i) \/ MakeDirsDenied(i)
    \/ WriteScript(i) \/ WriteScriptDenied(i)
    \/ WhichUv(i) \/ Launch(i) \/ RunReturns(i) \/ TimeoutExpired(i) \/ Report(i)

\* The calls of the specification of termination: any code, one purpose
\* (the purpose only names the workspace).
InvokeFixed(i) == \E c \in Codes : Enter(i, c, <<"a", " ", "b">>)

FairNext ==
    \/ \E i \in Calls :
          \/ InvokeFixed(i)
          \/ Step(i)
          \/ ChildWrite(i)
          \/ ChildExit(i)
    \/ Tick
    \/ Elapse
    \/ RemoveUv

\* The interpreter keeps executing every call, and the timer of a running
\* child eventually expires; nothing is assumed of the child.
FairSpec ==
    /\ Init /\ [][FairNext]_vars
    /\ \A i \in Calls : WF_vars(Step(i))
    /\ WF_vars(Elapse)

\* C10: a call that has written its script returns; what it returns is
\* exactly one of the not-found text, the timeout text (its child killed),
\* a System Error text, or the structured report (its child exited); and
\* the runner is launched at most once per call.
C10_EveryCallReturns ==
    /\ \A i \in Calls : (pc[i] = "written") ~> Returned(i)
    /\ [](\A i \in Calls :
            /\ launches[i] <= 1
            /\ (child[i].state = "none") <=> (launches[i] = 0)
            /\ Returned(i) =>
                  \/ result[i] = NotFoundText /\ launches[i] = 0
                  \/ result[i] = TimeoutText /\ child[i].state = "killed"
                  \/ /\ Len(result[i]) = 2 /\ result[i][1] = "(U+274C) System Error: "
                     /\ child[i].state \in {"none", "exited"}
                  \/ IsReport(result[i]) /\ child[i].state = "exited"
            /\ ~Returned(i) => result[i] = <<>>)

C10_Witness ==
    /\ \A i \in Calls : Returned(i)
    /\ \E i, j \in Calls :
          /\ result[i] = TimeoutText
          /\ result[j][1] = "(U+274C) System Error: "
====
